---- MODULE Spec2Model ----
(***************************************************************************)
(* The frame-presentation loop and swapchain-recreation state machine of   *)
(* src/src/main.rs (the closure handed to event_loop.run) together with    *)
(* renderer::recreate_swapchain, get_frame_buffers, get_pipeline and       *)
(* get_command_buffers of src/src/renderer.rs.                             *)
(*                                                                         *)
(* An invocation of the closure (one winit event) is one action from the   *)
(* event match to its return or panic, unless it has to wait: in           *)
(* acquire_next_image, which has no timeout (main.rs:149), or for the      *)
(* fence of the acquired image (main.rs:162-164).  Then the action ends    *)
(* with the closure blocked there (pc = "acquire", pc = "wait") and        *)
(* AcquireEnds and WaitEnds are the rest of the invocation.                *)
(* The driver is the environment: the outcome of                           *)
(* recreate, acquire, fence wait, then_execute and of                      *)
(* then_signal_fence_and_flush is drawn from the outcomes the code         *)
(* distinguishes, and an unwrap in the rebuild of framebuffers, pipeline   *)
(* or command buffers may panic.  The window's inner size is the window    *)
(* system's: it changes when the window does, whether the closure reads it *)
(* or not, the two reads of it in the resize branch may differ, and a      *)
(* Resized event is owed for each change.  The GPU is the only             *)
(* concurrent actor: GpuComplete finishes submitted work, and the wait     *)
(* returns only when the work behind the slot's fence has finished.        *)
(*                                                                         *)
(* Opaque handles are modelled by what a use of them depends on: whether   *)
(* they belong to the current swapchain (age 0) or to one that has been    *)
(* replaced since (age 1), their number, and the extent they were built    *)
(* for.                                                                    *)
(***************************************************************************)
EXTENDS Integers, FiniteSets, Sequences, TLC

\* Bounds of the model.
MaxImages == 3
MaxExtent == 2
MaxDisturbances == 1

\* The image counts a swapchain may come with, the image indices and the
\* inner sizes of the window.
MinImages == MaxImages - 1
ImageCounts == MinImages..MaxImages
Slots == 0..(MaxImages - 1)
Extents == 0..MaxExtent

VARIABLES
    window_resized,     \* main.rs:93   the Resize Flag
    fences,             \* main.rs:96   Vec<Option<Arc<FenceSignalFuture>>>, indexed from 0
    previous_fence_i,   \* main.rs:97
    swapchain,          \* state.swapchain: its image extent
    swapchain_images,   \* state.swapchain_images: age and length
    framebuffers,       \* main.rs:46   age and length
    viewport,           \* main.rs:71   viewport.dimensions
    command_buffers,    \* main.rs:85   length, framebuffers recorded against, pipeline viewport
    control_flow,       \* winit ControlFlow of the loop: "Poll" or "Exit"
    running,            \* FALSE once the closure has returned from LoopDestroyed
    panicked,           \* TRUE once the closure has panicked
    inner_size,         \* the inner size of the window (surface.window().inner_size());
                        \* 0 is a degenerate extent
    resize_pending,     \* the window system owes a Resized event for a change of size
    pc,                 \* "idle", or where the closure is blocked: "acquire" (main.rs:149),
                        \* "wait" (main.rs:163)
    in_flight,          \* per image index: submissions the GPU has not finished
    disturbances_left,  \* steps with a close request, a change of the window's size, a
                        \* failure or a stale result still to come
    iter                \* what the latest invocation of the closure did

vars == << window_resized, fences, previous_fence_i, swapchain, swapchain_images,
           framebuffers, viewport, command_buffers, control_flow, running, panicked,
           inner_size, resize_pending, pc, in_flight, disturbances_left, iter >>

\* Option<Arc<FenceSignalFuture>>: None, or the fence of a submission that
\* presented to the current swapchain (age 0) or to a replaced one (age 1).
None == [tag |-> "None", age |-> 0]
Some(a) == [tag |-> "Some", age |-> a]

\* A handle once its swapchain has been replaced.
Aged(fence) == IF fence.tag = "Some" THEN Some(1) ELSE fence

\* A zero-sized (minimised) window is the degenerate extent.  The code does
\* not look at the extent it asks for: whether a swapchain is created for it
\* is the driver's answer, for this extent as for any other.
Degenerate(extent) == extent = 0

\* renderer::get_frame_buffers: one framebuffer per image, in order.
get_frame_buffers(images) == [age |-> images.age, count |-> images.count]

\* main.rs:60-69: the vertex buffer and the two shader modules, created once
\* before the loop and captured by the closure.
vertex_buffer == "vertex_buffer of startup"
vs == "vs of startup"
fs == "fs of startup"

\* renderer::get_pipeline: the pipeline fixes the shader stages and the viewport.
get_pipeline(vshader, fshader, vp) == [viewport |-> vp, vs |-> vshader, fs |-> fshader]

\* (variant: command buffers that are not recorded against the framebuffers given)
get_command_buffers_elsewhere(pipeline, fbs, vbuf) ==
    [count |-> fbs.count, age |-> 1, viewport |-> pipeline.viewport,
     vs |-> pipeline.vs, fs |-> pipeline.fs, vertex_buffer |-> vbuf]

\* renderer::get_command_buffers: one command buffer per framebuffer, each
\* recorded against that framebuffer with the given pipeline.
get_command_buffers(pipeline, fbs, vbuf) ==
    [count |-> fbs.count, age |-> fbs.age, viewport |-> pipeline.viewport,
     vs |-> pipeline.vs, fs |-> pipeline.fs, vertex_buffer |-> vbuf]

\* renderer::recreate_swapchain(surface, swapchain, render_pass).
\* size is the inner size read at line 248, rc the answer of Swapchain::recreate
\* ("ok", "unsup" for ImageExtentNotSupported, "err" for any other error), n
\* the number of images the driver creates for the new swapchain, b the step
\* of the rebuild that fails ("framebuffers": an unwrap of get_frame_buffers
\* at line 258 panics).
recreate_swapchain(size, old, rc, n, b) ==
    IF rc = "unsup" THEN
        [tag |-> "None", swapchain |-> old, images |-> [age |-> 0, count |-> n],
         framebuffers |-> [age |-> 0, count |-> n]]
    ELSE IF rc = "err" \/ b = "framebuffers" THEN
        [tag |-> "Panic", swapchain |-> old, images |-> [age |-> 0, count |-> n],
         framebuffers |-> [age |-> 0, count |-> n]]
    ELSE
        LET new_images == [age |-> 0, count |-> n]
        IN  [tag |-> "Some",
             swapchain |-> [extent |-> size],
             images |-> new_images,
             framebuffers |-> get_frame_buffers(new_images)]

\* The program state the closure captures, as one record.
Captured ==
    [window_resized |-> window_resized, fences |-> fences,
     previous_fence_i |-> previous_fence_i, swapchain |-> swapchain,
     swapchain_images |-> swapchain_images, framebuffers |-> framebuffers,
     viewport |-> viewport, command_buffers |-> command_buffers,
     control_flow |-> control_flow, panicked |-> panicked, pc |-> "idle",
     in_flight |-> in_flight, iter |-> iter]

\* The record of an invocation that has done nothing yet.
FreshIter(ev) ==
    [event |-> ev, rebuild |-> "none", acquire |-> "none", image_i |-> -1,
     prior |-> "none", waited |-> "none", chained |-> "none",
     exec |-> "none", flush |-> "none", panic |-> "none"]

\* (variant: a Resized event that leaves the flag as it was)
FlagAfterEventIgnored(ev, flag) == flag

\* main.rs:100-118: the event match.  ControlFlow::Exit is sticky in winit, so
\* the assignment of Poll at line 100 does not undo it.
FlagAfterEvent(ev, flag) == IF ev = "Resized" THEN TRUE ELSE flag

ControlFlowAfterEvent(ev, cf) ==
    IF ev = "CloseRequested" \/ cf = "Exit" THEN "Exit" ELSE "Poll"

MatchEvent(s, ev) ==
    [s EXCEPT !.control_flow = ControlFlowAfterEvent(ev, @),
              !.window_resized = FlagAfterEvent(ev, @),
              !.iter = FreshIter(ev)]

\* main.rs:126: the new swapchain, images and framebuffers replace the old
\* ones.  Nothing else is assigned, so every other handle the closure holds now
\* belongs to a replaced swapchain.
Replace(s, r) ==
    [s EXCEPT !.swapchain = r.swapchain,
              !.swapchain_images = r.images,
              !.framebuffers = r.framebuffers,
              !.command_buffers.age = 1,
              !.fences = [i \in DOMAIN s.fences |-> Aged(s.fences[i])],
              !.iter.rebuild = "rebuilt"]

\* main.rs:121: the flag is cleared before the swapchain is recreated.
FlagAfterResize(flag) == FALSE

\* main.rs:120-144: the resize branch.  size is the inner size recreate_swapchain
\* reads (renderer.rs:248), size2 the inner size line 129 reads, b the step of
\* the rebuild that fails: an unwrap of get_pipeline (renderer.rs:195-201) or
\* of get_command_buffers (renderer.rs:221-237) panics after the viewport and
\* whatever recreate_swapchain returned have been assigned.
ResizeBranch(s, size, size2, rc, n, b) ==
    IF ~s.window_resized THEN s
    ELSE
        LET r == recreate_swapchain(size, s.swapchain, rc, n, b)
            cleared == [s EXCEPT !.window_resized = FlagAfterResize(@)]
        IN  IF r.tag = "Panic" THEN
                [cleared EXCEPT !.panicked = TRUE, !.iter.rebuild = "fatal",
                                !.iter.panic = "recreate"]
            ELSE
                LET s1 == IF r.tag = "Some" THEN Replace(cleared, r)
                          ELSE [cleared EXCEPT !.iter.rebuild = "skipped"]
                IN  IF b \in {"pipeline", "command_buffers"} THEN
                        [s1 EXCEPT !.viewport = size2, !.panicked = TRUE,
                                   !.iter.panic = "build"]
                    ELSE
                        [s1 EXCEPT !.viewport = size2,
                                   !.command_buffers =
                                       get_command_buffers(get_pipeline(vs, fs, size2),
                                                           s1.framebuffers, vertex_buffer)]

\* (variant: only an out-of-date acquire raises the flag)
FlagAfterAcquireOutOfDateOnly(acq, flag) == IF acq = "ood" THEN TRUE ELSE flag

\* (variant: any acquire that is not a plain success raises the flag)
FlagAfterAcquireAnyFailure(acq, flag) == IF acq # "ok" THEN TRUE ELSE flag

\* (variant: only a suboptimal acquire raises the flag)
FlagAfterAcquireSuboptimalOnly(acq, flag) == IF acq = "subopt" THEN TRUE ELSE flag

\* main.rs:148-160: what acquire_next_image does to the Resize Flag.
FlagAfterAcquire(acq, flag) == IF acq \in {"ood", "subopt"} THEN TRUE ELSE flag

\* (variant: a wait on a stored fence never returns)
WaitReturnsOnlyForNone(fence, unfinished) == fence.tag = "None"

\* (variant: the closure goes on without waiting for the slot's fence)
WaitSkipped(fence, unfinished) == TRUE

\* main.rs:162-164: image_fence.wait(None) returns once the work behind the
\* fence has finished; there is nothing to wait for when the slot holds None.
WaitReturns(fence, unfinished) == fence.tag = "None" \/ unfinished = 0

\* What the slot held when the closure went on to reuse it.
PriorOf(fence, unfinished) ==
    IF fence.tag = "None" THEN "absent"
    ELSE IF unfinished = 0 THEN "resolved" ELSE "pending"

\* Which swapchain a fence future taken from fences belongs to: the fence of
\* a submission holds the swapchain it presented to.
HandleOf(fence) ==
    IF fence.tag = "None" THEN "absent"
    ELSE IF fence.age = 0 THEN "current" ELSE "stale"

\* main.rs:166-175: previous_future is the fence stored at previous_fence_i, or
\* sync::now ("absent") when that slot holds None.
previous_future(slots, previous) == HandleOf(slots[previous])

\* (variant: a failed then_execute leaves the flag as it was)
FlagAfterExecuteUnchanged(ex, flag) == flag

\* main.rs:199-202: a failed then_execute raises the flag.
FlagAfterExecute(ex, flag) == IF ex = "err" THEN TRUE ELSE flag

\* (variant: any failed flush raises the flag)
FlagAfterFlushAnyFailure(fl, flag) == IF fl # "ok" THEN TRUE ELSE flag

\* main.rs:188-198: what then_signal_fence_and_flush leaves in fences[image_i]
\* and what it does to the flag.
FenceAfterFlush(fl) == IF fl = "ok" THEN Some(0) ELSE None

FlagAfterFlush(fl, flag) == IF fl = "ood" THEN TRUE ELSE flag

\* A future that was flushed successfully is work the GPU still has to finish.
\* A future whose flush failed is dropped at line 198 and leaves nothing behind.
InFlightAfterFlush(fl, unfinished) == IF fl = "ok" THEN unfinished + 1 ELSE unfinished

\* (variant: previous_fence_i is never advanced)
PreviousKept(image_i, previous) == previous

\* main.rs:204
PreviousAfterFrame(image_i, previous) == image_i

\* (variant: a failed then_execute clears the slot and advances previous_fence_i)
SubmitAndPresentAdvancing(s, image_i, ex, fl) ==
    [s EXCEPT !.iter.chained = previous_future(s.fences, s.previous_fence_i),
              !.iter.exec = ex,
              !.window_resized = IF ex = "err" \/ fl = "ood" THEN TRUE ELSE @,
              !.fences[image_i] = IF ex = "ok" THEN FenceAfterFlush(fl) ELSE None,
              !.in_flight[image_i] = IF ex = "ok" THEN InFlightAfterFlush(fl, @) ELSE @,
              !.previous_fence_i = image_i,
              !.iter.flush = IF ex = "ok" THEN fl ELSE "none"]

\* main.rs:166-204: from the choice of previous_future to the end of the closure.
SubmitAndPresent(s, image_i, ex, fl) ==
    LET s1 == [s EXCEPT !.iter.chained = previous_future(s.fences, s.previous_fence_i),
                        !.iter.exec = ex,
                        !.window_resized = FlagAfterExecute(ex, @)]
    IN  IF ex = "err" THEN s1
        ELSE [s1 EXCEPT !.fences[image_i] = FenceAfterFlush(fl),
                        !.window_resized = FlagAfterFlush(fl, @),
                        !.in_flight[image_i] = InFlightAfterFlush(fl, @),
                        !.previous_fence_i = PreviousAfterFrame(image_i, @),
                        !.iter.flush = fl]

\* main.rs:164-204: the closure once the wait for the fence of image_i is
\* over (or there was nothing to wait for).
AfterWait(s, image_i, ex, fl) ==
    SubmitAndPresent(
        [s EXCEPT !.iter.prior = PriorOf(s.fences[image_i], s.in_flight[image_i])],
        image_i, ex, fl)

\* main.rs:146-205: the frame iteration that follows the resize branch.
\* acq is the outcome of acquire_next_image, image_i the index it returns,
\* w the outcome of the fence wait, ex of then_execute, fl of the flush.
\* The iteration stops in acquire_next_image while the driver has no image to
\* hand out (acq = "blocked"), and in the wait while the work behind the
\* fence of image_i is unfinished.
Frame(s, acq, image_i, w, ex, fl) ==
    LET s1 == [s EXCEPT !.iter.acquire = acq,
                        !.window_resized = FlagAfterAcquire(acq, @)]
    IN  IF acq = "blocked" THEN [s EXCEPT !.pc = "acquire", !.iter.acquire = acq]
        ELSE IF acq \in {"ood", "err"} THEN s1
        ELSE IF image_i \notin DOMAIN s1.fences THEN
            [s1 EXCEPT !.iter.image_i = image_i, !.panicked = TRUE,
                       !.iter.panic = "index"]
        ELSE
            LET fence == s1.fences[image_i]
                s2 == [s1 EXCEPT !.iter.image_i = image_i,
                                 !.iter.waited = HandleOf(fence)]
            IN  IF fence.tag = "Some" /\ w = "err" THEN
                    [s2 EXCEPT !.panicked = TRUE, !.iter.panic = "wait"]
                ELSE IF ~WaitReturns(fence, s1.in_flight[image_i]) THEN
                    [s2 EXCEPT !.pc = "wait", !.iter.prior = "pending"]
                ELSE AfterWait(s2, image_i, ex, fl)

\* main.rs:163-204: the wait the closure was blocked in ends, with an error
\* (the unwrap panics) or because the work behind the fence has finished.
Resumed(s, w, ex, fl) ==
    IF w = "err" THEN [s EXCEPT !.panicked = TRUE, !.iter.panic = "wait"]
    ELSE AfterWait(s, s.iter.image_i, ex, fl)

\* main.rs:99-205: one invocation of the closure, up to its return, its panic
\* or the call it blocks in.
Closure(ev, size, size2, rc, n, b, acq, image_i, w, ex, fl) ==
    LET s1 == ResizeBranch(MatchEvent(Captured, ev), size, size2, rc, n, b)
    IN  IF s1.panicked THEN s1 ELSE Frame(s1, acq, image_i, w, ex, fl)

\* The driver failures and stale results an invocation met.
Faults(it) ==
      (IF it.panic \in {"recreate", "build", "wait"} THEN 1 ELSE 0)
    + (IF it.acquire \in {"ood", "err", "subopt"} THEN 1 ELSE 0)
    + (IF it.exec = "err" THEN 1 ELSE 0)
    + (IF it.flush \in {"ood", "err"} THEN 1 ELSE 0)

AcquireOutcomes == {"ok", "subopt", "ood", "err"}
FlushOutcomes == {"ok", "ood", "err"}
Outcomes == {"ok", "err"}
RecreateOutcomes == {"ok", "unsup", "err"}
BuildOutcomes == {"ok", "framebuffers", "pipeline", "command_buffers"}

\* What a call of acquire_next_image does: it returns one of its outcomes, or
\* it has not returned yet.
AcquireAnswers == AcquireOutcomes \cup {"blocked"}

\* The driver's answers to one frame iteration: << acq, image_i, w, ex, fl >>.
FrameInputs ==
    { f : f \in AcquireAnswers \X Slots \X Outcomes \X Outcomes \X FlushOutcomes }

\* What the resize branch is answered: << rc, n, size2, b >>, the answer of
\* Swapchain::recreate, the number of images of the new swapchain, the inner
\* size the window has at line 129 and the step of the rebuild that panics.
RecreateInputs ==
    { r : r \in RecreateOutcomes \X ImageCounts \X Extents \X BuildOutcomes }

\* The answers of an invocation that asks for no swapchain, or of a rebuild
\* and a frame iteration in which nothing fails.
Quiet(size) == << "ok", MinImages, size, "ok" >>
Nominal == << "ok", 0, "ok", "ok", "ok" >>

\* What the closure is answered once its wait is over: << w, ex, fl >>.
WaitInputs == { g : g \in Outcomes \X Outcomes \X FlushOutcomes }

\* The answers to one invocation: << r, f >>.
Inputs == { in : in \in RecreateInputs \X FrameInputs }

\* The failures and stale results among the driver's answers.
Offered(r, f) ==
      (IF r[1] = "err" \/ r[4] # "ok" THEN 1 ELSE 0)
    + (IF f[1] \in {"ood", "err", "subopt"} THEN 1 ELSE 0)
    + (IF f[3] = "err" THEN 1 ELSE 0)
    + (IF f[4] = "err" THEN 1 ELSE 0)
    + (IF f[5] # "ok" THEN 1 ELSE 0)

\* The window changes its size while the resize branch runs: line 129 reads
\* another size than renderer.rs:248.
Stirred(size, r) == r[3] # size

\* The driver refuses an extent that is not degenerate.
Refused(size, r) == r[1] = "unsup" /\ ~Degenerate(size)

\* The disturbances an event itself stands for: a close request is one, and
\* so is a change of the window's size since the last invocation, and a
\* Resized event that is not the one owed for the size the window has.
EventCost(ev, size) ==
    IF \/ ev = "CloseRequested"
       \/ size # inner_size
       \/ ev = "Resized" /\ ~resize_pending
    THEN 1 ELSE 0

\* The answers worth telling apart: of the answers the closure never asks
\* for (everything after a panic or an early return), only the nominal ones
\* ("ok", image 0, MinImages, the size unchanged) are listed.
Listed(size, r, f) ==
    /\ r[1] # "ok" => r[2] = MinImages
    /\ r[1] = "err" => r[3] = size /\ r[4] = "ok" /\ f = Nominal
    /\ r[4] = "framebuffers" => r[1] = "ok" /\ r[3] = size
    /\ r[4] # "ok" => f = Nominal
    /\ f[1] \in {"ood", "err", "blocked"} =>
            f[2] = 0 /\ f[3] = "ok" /\ f[4] = "ok" /\ f[5] = "ok"
    /\ f[3] = "err" => f[4] = "ok" /\ f[5] = "ok"
    /\ f[4] = "err" => f[5] = "ok"

\* The answers the closure may get when the step may (free) or may not be a
\* disturbed one, the resize branch does (asks) or does not ask for a new
\* swapchain, the swapchain has c images and the window's inner size is size:
\* a swapchain that is not asked for is not answered for, and an acquired
\* index is an index of the swapchain acquired from.
InputsAt ==
    [free \in BOOLEAN, asks \in BOOLEAN, c \in ImageCounts, size \in Extents |->
        { in \in Inputs :
            /\ Listed(size, in[1], in[2])
            /\ free \/ ( /\ Offered(in[1], in[2]) = 0
                        /\ ~Refused(size, in[1]) /\ ~Stirred(size, in[1]) )
            /\ ~asks => in[1] = Quiet(size)
            /\ in[2][1] \in {"ok", "subopt"} =>
                    in[2][2] < (IF asks /\ in[1][1] = "ok" THEN in[1][2] ELSE c) }]

\* The answers the closure may get once acquire_next_image returns, when the
\* swapchain has c images.
AcquireInputsAt ==
    [free \in BOOLEAN, c \in ImageCounts |->
        { f \in FrameInputs :
            /\ f[1] # "blocked"
            /\ Listed(1, Quiet(1), f)
            /\ free \/ Offered(Quiet(1), f) = 0
            /\ f[1] \in {"ok", "subopt"} => f[2] < c }]

\* The answers the closure may get once its wait is over.
WaitInputsAt ==
    [free \in BOOLEAN |->
        { g \in WaitInputs :
            /\ g[1] = "err" => g[2] = "ok" /\ g[3] = "ok"
            /\ g[2] = "err" => g[3] = "ok"
            /\ free \/ g = << "ok", "ok", "ok" >> }]

\* Whether the resize branch will run: the flag as the event match leaves it.
AsksRecreate(ev) == FlagAfterEvent(ev, window_resized)

\* The closure's variables after a step of it that left it in state s.
Leaves(s) ==
    /\ window_resized' = s.window_resized
    /\ fences' = s.fences
    /\ previous_fence_i' = s.previous_fence_i
    /\ swapchain' = s.swapchain
    /\ swapchain_images' = s.swapchain_images
    /\ framebuffers' = s.framebuffers
    /\ viewport' = s.viewport
    /\ command_buffers' = s.command_buffers
    /\ control_flow' = s.control_flow
    /\ panicked' = s.panicked
    /\ in_flight' = s.in_flight
    /\ iter' = s.iter
    /\ pc' = s.pc
    /\ running' = (running /\ ~(s.iter.event = "LoopDestroyed" /\ s.pc = "idle" /\ ~s.panicked))

\* The window has changed its size since the last invocation, and the event
\* handled is not the Resized event for it.
Seen(ev, size) == ev # "Resized" /\ size # inner_size

\* The loop hands one event to the closure while the window's inner size is
\* size, and the closure is answered in.  Every failure among the answers is
\* one the closure met.  The window changes its size whenever it does, whether
\* the closure reads the size or not; a Resized event is owed afterwards when
\* the window changed its size before its event or while the resize branch
\* ran, and for nothing else: not for an extent the driver refused.
Runs(ev, size, in) ==
    LET r == in[1]
        f == in[2]
    IN
        /\ \E s \in { Closure(ev, size, r[3], r[1], r[2], r[4],
                                f[1], f[2], f[3], f[4], f[5]) } :
            /\ Faults(s.iter) = Offered(r, f)
            /\ disturbances_left' =
                    IF \/ EventCost(ev, size) > 0 \/ Offered(r, f) > 0
                       \/ Refused(size, r) \/ Stirred(size, r)
                    THEN disturbances_left - 1 ELSE disturbances_left
            /\ Leaves(s)
        /\ inner_size' = r[3]
        /\ resize_pending' =
                ((resize_pending /\ ev # "Resized") \/ Seen(ev, size) \/ Stirred(size, r))

\* One invocation with answers the closure may get.
Answered(ev, size, in) ==
    /\ pc = "idle"
    /\ EventCost(ev, size) <= disturbances_left
    /\ in \in InputsAt[disturbances_left > 0, AsksRecreate(ev),
                       swapchain_images.count, size]
    /\ Runs(ev, size, in)

Invoke(ev, size) ==
    /\ pc = "idle"
    /\ EventCost(ev, size) <= disturbances_left
    /\ \E in \in InputsAt[disturbances_left > 0, AsksRecreate(ev),
                           swapchain_images.count, size] :
        Runs(ev, size, in)

Alive == running /\ ~panicked

\* WindowEvent::CloseRequested for the loop's own window (main.rs:103-108).
OnCloseRequested ==
    /\ Alive
    /\ \E size \in Extents : Invoke("CloseRequested", size)

\* WindowEvent::Resized (main.rs:109-114): the window has a new inner size,
\* which the closure reads from the window, not from the event.
OnResized ==
    /\ Alive
    /\ \E size \in Extents : Invoke("Resized", size)

\* Any other event, MainEventsCleared, RedrawEventsCleared and a close request
\* for another window included (main.rs:115-117).  The loop goes on delivering
\* the events of the iteration after the control flow has become Exit.
OnOtherEvent ==
    /\ Alive
    /\ \E size \in Extents : Invoke("Other", size)

\* Event::LoopDestroyed, the last event of a loop whose control flow is Exit.
OnLoopDestroyed ==
    /\ Alive /\ control_flow = "Exit"
    /\ \E size \in Extents : Invoke("LoopDestroyed", size)

\* main.rs:149: acquire_next_image, which the closure is blocked in, returns,
\* and the closure runs on to its return, its panic or the wait for the fence
\* of the image.
AcquireEndsWith(f) ==
    /\ Alive /\ pc = "acquire"
    /\ f \in AcquireInputsAt[disturbances_left > 0, swapchain_images.count]
    /\ \E s \in { Frame(Captured, f[1], f[2], f[3], f[4], f[5]) } :
        /\ Faults(s.iter) = Offered(Quiet(1), f)
        /\ disturbances_left' =
                IF Faults(s.iter) > 0 THEN disturbances_left - 1 ELSE disturbances_left
        /\ Leaves(s)
    /\ UNCHANGED << inner_size, resize_pending >>

AcquireEnds == \E f \in FrameInputs : AcquireEndsWith(f)

\* main.rs:163: the wait the closure is blocked in ends, and the closure runs
\* to its return or panics.
WaitEndsWith(g) ==
    /\ Alive /\ pc = "wait"
    /\ g \in WaitInputsAt[disturbances_left > 0]
    /\ g[1] = "err" \/ WaitReturns(fences[iter.image_i], in_flight[iter.image_i])
    /\ \E s \in { Resumed(Captured, g[1], g[2], g[3]) } :
        /\ (IF s.iter.panic = "wait" THEN 1 ELSE 0)
             + (IF s.iter.exec = "err" THEN 1 ELSE 0)
             + (IF s.iter.flush \in {"ood", "err"} THEN 1 ELSE 0)
           = (IF g = << "ok", "ok", "ok" >> THEN 0 ELSE 1)
        /\ disturbances_left' =
                IF g = << "ok", "ok", "ok" >> THEN disturbances_left
                ELSE disturbances_left - 1
        /\ Leaves(s)
    /\ UNCHANGED << inner_size, resize_pending >>

WaitEnds == \E g \in WaitInputs : WaitEndsWith(g)

\* The GPU finishes the submission in flight for image i; the fence stored
\* for it is then signalled.
GpuCompletes(i) ==
    /\ Alive
    /\ in_flight[i] > 0
    /\ in_flight' = [in_flight EXCEPT ![i] = @ - 1]
    /\ UNCHANGED << window_resized, fences, previous_fence_i, swapchain, swapchain_images,
                    framebuffers, viewport, command_buffers, control_flow, running,
                    panicked, inner_size, resize_pending, pc, disturbances_left, iter >>

GpuComplete == \E i \in Slots : GpuCompletes(i)

\* main.rs:44-97: the state the closure starts from, with k disturbed steps to
\* come.  The swapchain is created for the inner size init_vulkan reads
\* (renderer.rs:90; Swapchain::new is unwrapped, so the driver has created a
\* swapchain for that extent, whatever it is), the viewport is the inner size
\* main.rs:73 reads, and the window may change its size in between.
Startup(k) ==
    /\ \E n \in ImageCounts :
        /\ swapchain_images = [age |-> 0, count |-> n]
        /\ fences = [i \in 0..(n - 1) |-> None]
    /\ \E size \in Extents, size2 \in Extents :
        /\ swapchain = [extent |-> size]
        /\ viewport = size2
        /\ inner_size = size2
        /\ resize_pending = (size2 # size)
        /\ disturbances_left = k
    /\ framebuffers = get_frame_buffers(swapchain_images)
    /\ command_buffers = get_command_buffers(get_pipeline(vs, fs, viewport),
                                             framebuffers, vertex_buffer)
    /\ window_resized = FALSE
    /\ previous_fence_i = 0
    /\ control_flow = "Poll"
    /\ running = TRUE
    /\ panicked = FALSE
    /\ pc = "idle"
    /\ in_flight = [i \in Slots |-> 0]
    /\ iter = FreshIter("none")

Init == Startup(MaxDisturbances)

Next ==
    \/ OnCloseRequested
    \/ OnResized
    \/ OnOtherEvent
    \/ OnLoopDestroyed
    \/ AcquireEnds
    \/ WaitEnds
    \/ GpuComplete

Spec == Init /\ [][Next]_vars

\* An invocation for an event the closure ignores acquires image i and, unless
\* it has to wait for the fence of image i first, submits and presents it.
Reuses(i) ==
    /\ Alive
    /\ Answered("Other", inner_size,
                << Quiet(inner_size), << "ok", i, "ok", "ok", "ok" >> >>)

\* The wait the closure is blocked in returns and the closure submits and
\* presents.
Proceeds == WaitEndsWith(<< "ok", "ok", "ok" >>)

\* The undisturbed loop: no resize, no close request, no driver failure and no
\* stale result ever, only events the closure ignores.
InitUndisturbed == Startup(0)

NextUndisturbed == OnOtherEvent \/ AcquireEnds \/ WaitEnds \/ GpuComplete

\* The undisturbed loop with its scheduling: the GPU finishes whatever was
\* submitted to it, a wait whose fence is signalled returns, an acquire the
\* closure is blocked in is handed an image, and the swapchain hands out each
\* of its images again and again to an invocation of the polling loop.
FairSpec ==
    /\ InitUndisturbed /\ [][NextUndisturbed]_vars
    /\ \A i \in Slots : WF_vars(GpuCompletes(i))
    /\ WF_vars(Proceeds)
    /\ WF_vars(AcquireEnds)
    /\ \A i \in Slots : SF_vars(Reuses(i))

(***************************************************************************)
(* The claims.                                                             *)
(***************************************************************************)

\* The latest invocation met no stale result and no failed submission: nothing
\* in it raised the Resize Flag after the resize branch.
NothingRaised(it) ==
    it.acquire \notin {"ood", "subopt"} /\ it.exec # "err" /\ it.flush # "ood"

\* A step in which the loop hands an event to the closure.
Begun ==
    /\ pc = "idle"
    /\ \/ << window_resized, fences, previous_fence_i, swapchain, swapchain_images,
             framebuffers, viewport, command_buffers, control_flow, running, panicked,
             inner_size, resize_pending, pc, disturbances_left, iter >>'
            # << window_resized, fences, previous_fence_i, swapchain, swapchain_images,
                 framebuffers, viewport, command_buffers, control_flow, running,
                 panicked, inner_size, resize_pending, pc, disturbances_left, iter >>
       \/ \E i \in Slots : in_flight'[i] > in_flight[i]

\* A step in which the call the closure was blocked in ends.
Ended == pc # "idle" /\ pc' # pc

\* A step of the closure (the GPU's steps only lower in_flight).
Invoked == Begun \/ Ended

\* A step of the closure in which the swapchain is replaced.
RebuiltNow == Begun /\ iter'.rebuild = "rebuilt"

\* The fences once their swapchain has been replaced.
AgedFences == [i \in DOMAIN fences |-> Aged(fences[i])]

\* C1: no image index ever has more than one submission in flight, and when
\* the closure stores into fences[image_i] the signal that slot held before was
\* absent or had resolved.
BackPressureBound ==
    /\ \A i \in Slots : in_flight[i] <= 1
    /\ iter.exec = "ok" => iter.prior \in {"absent", "resolved"}

\* C1 witness: a slot whose earlier signal had resolved is submitted again.
BackPressureReuse ==
    iter.flush = "ok" /\ iter.prior = "resolved" /\ in_flight[iter.image_i] = 1

\* C2 (as claimed): framebuffers, command buffers and fences are as many as the
\* images of the current swapchain.
GenerationConsistency ==
    /\ framebuffers.count = swapchain_images.count
    /\ command_buffers.count = swapchain_images.count
    /\ Cardinality(DOMAIN fences) = swapchain_images.count

\* C3 (as claimed): no slot holds a signal of a submission made against a
\* swapchain that has been replaced since.
RebuildResetsSignals ==
    \A i \in DOMAIN fences : fences[i].tag = "Some" => fences[i].age = 0

\* C4 (as claimed): an invocation whose rebuild is skipped leaves swapchain,
\* images, framebuffers, viewport and command buffers as they were.
SkipLeavesGenerationIntact ==
    [][ (Begun /\ iter'.rebuild = "skipped")
            => /\ swapchain' = swapchain
               /\ swapchain_images' = swapchain_images
               /\ framebuffers' = framebuffers
               /\ viewport' = viewport
               /\ command_buffers' = command_buffers ]_vars

\* C5 (as claimed): the invocation that follows a skipped rebuild attempts the
\* rebuild again.
RetryAfterSkippedRebuild ==
    [][ (Begun /\ iter.rebuild = "skipped") => iter'.rebuild # "none" ]_vars

\* C6 (as claimed): once the resize events have been delivered and the
\* window's inner size is valid, the closure settles: after an invocation that
\* skipped no rebuild and in which nothing raised the flag, the flag is false
\* and swapchain, viewport and command buffers are the ones built for the
\* window's size.
ResizeConvergence ==
    ( /\ Alive /\ ~resize_pending /\ ~Degenerate(inner_size)
      /\ NothingRaised(iter) /\ iter.rebuild # "skipped" )
        => /\ ~window_resized
           /\ swapchain.extent = inner_size
           /\ viewport = inner_size
           /\ command_buffers.viewport = inner_size

\* C7: an invocation whose acquire fails with "out of date" reaches neither
\* then_execute nor the flush, puts no work in flight and ends with the flag
\* set; the invocation that follows it attempts a rebuild.
ScenarioD ==
    [][ /\ iter'.acquire = "ood"
            => /\ iter'.exec = "none" /\ iter'.flush = "none"
               /\ \A i \in Slots : in_flight'[i] <= in_flight[i]
               /\ window_resized'
        /\ (Begun /\ iter.acquire = "ood") => iter'.rebuild # "none" ]_vars

\* C7 witness: an acquire has failed with "out of date" and the flag is up.
ScenarioDAborted ==
    Alive /\ iter.acquire = "ood" /\ iter.exec = "none" /\ window_resized

\* C8: the invocation that handles a Resized event attempts the rebuild, and
\* rebuilds the swapchain for the window's size when that size is valid (not
\* degenerate, not refused by the driver) and does not change meanwhile
\* (unless the driver fails); an invocation that handles
\* no Resized event and follows one in which nothing raised the flag does not
\* rebuild; and whatever is submitted and presented uses framebuffers and
\* command buffers of the current swapchain, one per image, and leaves a
\* signal of the current swapchain.
ScenarioB ==
    [][ /\ (Begun /\ iter'.event = "Resized")
            => /\ iter'.rebuild # "none"
               /\ ( /\ ~Degenerate(inner_size') /\ ~resize_pending'
                    /\ iter'.rebuild # "skipped" /\ iter'.panic # "recreate" )
                    => /\ iter'.rebuild = "rebuilt"
                       /\ swapchain'.extent = inner_size' /\ viewport' = inner_size'
        /\ (Begun /\ iter'.event # "Resized" /\ NothingRaised(iter))
            => iter'.rebuild = "none"
        /\ (Invoked /\ iter'.exec = "ok")
            => /\ framebuffers'.age = 0 /\ command_buffers'.age = 0
               /\ framebuffers'.count = swapchain_images'.count
               /\ command_buffers'.count = swapchain_images'.count
               /\ command_buffers'.viewport = viewport'
               /\ iter'.flush = "ok" => fences'[iter'.image_i] = Some(0) ]_vars

\* C8 witness: after a rebuild (a signal of the replaced swapchain is still
\* around) a later invocation, with nothing to rebuild, submits and presents.
ScenarioBLater ==
    /\ Alive /\ iter.event = "Other" /\ iter.rebuild = "none" /\ iter.flush = "ok"
    /\ \E i \in DOMAIN fences : fences[i] = Some(1)

\* C9 (as claimed): after a failure other than "out of date" at acquire or at
\* then_execute nothing is submitted, the flag is raised and the closure has
\* not panicked.
DriverFailureRaisesFlag ==
    (running /\ (iter.acquire = "err" \/ iter.exec = "err"))
        => iter.flush = "none" /\ window_resized /\ ~panicked

\* C9 (amended): after such a failure at acquire nothing is submitted and the
\* flag is false; after one at then_execute nothing is submitted, the slot's
\* signal is not stored and the flag is raised; neither panics, and the loop
\* goes on unless the event handled was its last, LoopDestroyed.
DriverFailurePolicy ==
    /\ iter.acquire = "err"
        => /\ iter.exec = "none" /\ iter.flush = "none" /\ ~panicked
           /\ ~window_resized
    /\ iter.exec = "err"
        => /\ iter.flush = "none" /\ ~panicked
           /\ window_resized
    /\ (iter.acquire = "err" \/ iter.exec = "err")
        => (iter.event # "LoopDestroyed" => running)

\* C9 witness: an acquire has failed with another error and the flag is down.
AcquireFailedSilently ==
    Alive /\ iter.acquire = "err" /\ ~window_resized

\* C10 (as claimed): the invocation that handles the close request, and any
\* after it, acquires no image, waits for no fence and submits nothing.
ShutdownStopsIterations ==
    iter.event \in {"CloseRequested", "LoopDestroyed"}
        => iter.acquire = "none" /\ iter.prior = "none" /\ iter.exec = "none"

\* C11 (as claimed): no invocation waits on, or chains its submission after, the
\* fence of a submission made against a swapchain that has been replaced.
NoStaleGenerationReference ==
    iter.waited # "stale" /\ iter.chained # "stale"

\* C13: an invocation whose acquire succeeds as suboptimal and that does not
\* panic goes on to then_execute and, when that succeeds, to the present and
\* flush, with framebuffers and command buffers of the current swapchain; it
\* ends with the flag raised, and the invocation after it attempts a rebuild.
SuboptimalProceeds ==
    [][ /\ (Invoked /\ iter'.acquire = "subopt")
            => /\ window_resized'
               /\ framebuffers'.age = 0 /\ command_buffers'.age = 0
               /\ (pc' = "idle" /\ iter'.panic = "none")
                    => /\ iter'.exec # "none"
                       /\ iter'.exec = "ok" => iter'.flush # "none"
        /\ (Begun /\ iter.acquire = "subopt")
            => iter'.rebuild # "none" ]_vars

\* C13 witness: a suboptimal image has been submitted and presented and the
\* flag is up.
SuboptimalPresented ==
    Alive /\ iter.acquire = "subopt" /\ iter.flush = "ok" /\ window_resized

\* C14: an invocation whose then_execute fails does not panic and does not
\* present; it ends with the flag raised, previous_fence_i where it was, nothing
\* new in flight and every slot holding the signal it held before.
ExecuteFailureAborts ==
    [][ (Invoked /\ iter'.exec = "err")
            => /\ iter'.flush = "none" /\ ~panicked'
               /\ window_resized'
               /\ previous_fence_i' = previous_fence_i
               /\ in_flight' = in_flight
               /\ fences' = IF RebuiltNow THEN AgedFences ELSE fences ]_vars

\* C14 witness: then_execute has failed for a slot that still holds its signal.
ExecuteFailedKeepingSignal ==
    /\ Alive /\ iter.exec = "err" /\ window_resized
    /\ fences[iter.image_i].tag = "Some"

\* C15: after a flush that succeeds the slot holds the new signal, after one
\* that fails (out of date or otherwise) it holds none; the flag is raised by
\* an out-of-date flush and otherwise is as the acquire left it; none of the
\* three outcomes panics or ends the loop.
PresentOutcomes ==
    /\ iter.flush # "none"
        => /\ ~panicked
           /\ iter.event # "LoopDestroyed" => running
    /\ iter.flush = "ok"
        => /\ fences[iter.image_i] = Some(0)
           /\ window_resized <=> iter.acquire = "subopt"
    /\ iter.flush = "ood"
        => fences[iter.image_i] = None /\ window_resized
    /\ iter.flush = "err"
        => /\ fences[iter.image_i] = None
           /\ window_resized <=> iter.acquire = "subopt"

\* C15 witness: a flush has failed with another error; the slot holds no signal
\* and the flag is down.
PresentFailedQuietly ==
    /\ Alive /\ iter.flush = "err" /\ ~window_resized
    /\ fences[iter.image_i] = None

\* C16: an invocation whose acquire fails with an error other than "out of
\* date" reaches neither then_execute nor the flush and does not panic; the
\* flag, the slots, previous_fence_i and the work in flight are as the resize
\* branch left them, and the loop's control flow is changed by nothing but a
\* close request.
AcquireFailureChangesNothing ==
    [][ (Invoked /\ iter'.acquire = "err")
            => /\ iter'.exec = "none" /\ iter'.flush = "none" /\ ~panicked'
               /\ iter'.event # "CloseRequested" => control_flow' = control_flow
               /\ iter'.event # "LoopDestroyed" => running'
               /\ previous_fence_i' = previous_fence_i
               /\ in_flight' = in_flight
               /\ fences' = IF RebuiltNow THEN AgedFences ELSE fences
               /\ window_resized' = (iter'.rebuild = "none" /\ window_resized)
               /\ iter'.rebuild = "none"
                    => UNCHANGED << swapchain, swapchain_images, framebuffers,
                                    viewport, command_buffers >> ]_vars

\* C16 witness: an acquire has failed with another error in an invocation that
\* rebuilt nothing, and a slot still holds its signal.
AcquireFailedKeepingSignals ==
    /\ Alive /\ iter.acquire = "err" /\ iter.rebuild = "none"
    /\ \E i \in DOMAIN fences : fences[i].tag = "Some"

\* C17: an invocation that reaches then_execute chains its submission after
\* what fences[previous_fence_i] held when the frame iteration began (the stored
\* signal, or the resolved baseline when the slot held none), and an invocation
\* that does not reach it chains nothing; previous_fence_i becomes the acquired
\* index exactly when then_execute succeeded, whatever the flush answered, and
\* otherwise stays.
DependencyChaining ==
    [][ Invoked =>
          /\ iter'.exec # "none"
              => iter'.chained =
                   HandleOf((IF RebuiltNow THEN AgedFences
                             ELSE fences)[previous_fence_i])
          /\ iter'.exec = "none" => iter'.chained = "none"
          /\ previous_fence_i' = IF iter'.exec = "ok" THEN iter'.image_i
                                 ELSE previous_fence_i ]_vars

\* C17 witness: a submission chained after a stored signal succeeded and its
\* present failed; previous_fence_i names its slot all the same.
ChainedAndRecorded ==
    /\ Alive /\ iter.exec = "ok" /\ iter.flush \in {"ood", "err"}
    /\ iter.chained = "current" /\ previous_fence_i = iter.image_i

\* C18 (as claimed): every index the acquire can return is an index of fences
\* and of command_buffers, previous_fence_i is an index of fences, and no
\* invocation panics on an index out of bounds.
IndexSafety ==
    /\ iter.panic # "index"
    /\ Alive =>
        /\ \A i \in 0..(swapchain_images.count - 1) :
              i \in DOMAIN fences /\ i < command_buffers.count
        /\ previous_fence_i \in DOMAIN fences

\* C19: while the closure lives, the command buffers are recorded against the
\* framebuffers of the images of the current swapchain, one per image, with the
\* vertex buffer and the shader modules of startup.
CommandBuffersTrackFramebuffers ==
    Alive =>
        /\ swapchain_images.age = 0 /\ framebuffers.age = 0 /\ command_buffers.age = 0
        /\ framebuffers.count = swapchain_images.count
        /\ command_buffers.count = framebuffers.count
        /\ command_buffers.vertex_buffer = vertex_buffer
        /\ command_buffers.vs = vs /\ command_buffers.fs = fs

\* C19 witness: a frame is submitted and presented by an invocation whose
\* rebuild was skipped.
SubmittedAfterSkippedRebuild ==
    /\ Alive /\ iter.rebuild = "skipped" /\ iter.flush = "ok"
    /\ command_buffers.count = swapchain_images.count

\* C12: with the GPU finishing what is submitted to it, every slot is again
\* and again without work in flight, so a wait on its signal returns and the
\* closure is never blocked for good;
\* and as long as the closure lives and the loop polls, every image of the
\* swapchain is again and again submitted and presented by an invocation that
\* first waited for the signal its slot held.
BackPressureNeverDeadlocks ==
    /\ \A i \in Slots : []<>(in_flight[i] = 0)
    /\ []<>(pc = "idle")
    /\ \A i \in Slots :
         []<>( \/ ~Alive \/ control_flow = "Exit"
               \/ i >= swapchain_images.count
               \/ /\ iter.image_i = i /\ iter.flush = "ok"
                  /\ iter.prior \in {"absent", "resolved"} )

\* C12 witness: every slot has been used and one of them has been reused after
\* the wait for its signal.
EverySlotUsedAndOneReused ==
    /\ Alive /\ iter.event = "Other"
    /\ \A i \in DOMAIN fences : fences[i].tag = "Some"
    /\ iter.waited = "current" /\ iter.prior = "resolved" /\ iter.flush = "ok"

====
